---- MODULE Spec2Model ----
(***************************************************************************)
(* A model of the underbar library (src/unnamed/part_000, the completed    *)
(* version of src/src/underbar.js): the function decorators once, memoize, *)
(* delay and throttle together with the timer facility they schedule on,   *)
(* and the pure functions first, shuffle and sortBy.                       *)
(***************************************************************************)
EXTENDS Integers, Sequences, FiniteSets, TLC

(***************************************************************************)
(* Bounds of the model.                                                    *)
(***************************************************************************)
MaxCalls == 3
MaxMemoCalls == 2
MaxMixedCalls == 2
MaxDelayCalls == 2
MaxWait == 1
MaxLen == 3
MaxStack == 2

Wrappers == {"w1", "w2"}
Waits == 0..MaxWait

(***************************************************************************)
(* JavaScript values.  Every value is a record of the same shape so that   *)
(* any two values can be compared: t is the type tag, n the payload of a   *)
(* number, s the payload of a string, props the own properties of an       *)
(* object as <<key, value>> pairs in insertion order.                      *)
(***************************************************************************)
Undefined == [t |-> "undefined", n |-> 0, s |-> "", props |-> <<>>]
Null == [t |-> "null", n |-> 0, s |-> "", props |-> <<>>]
NaNV == [t |-> "NaN", n |-> 0, s |-> "", props |-> <<>>]
FnV == [t |-> "function", n |-> 0, s |-> "", props |-> <<>>]
Num(k) == [t |-> "number", n |-> k, s |-> "", props |-> <<>>]
Str(x) == [t |-> "string", n |-> 0, s |-> x, props |-> <<>>]
Obj(p) == [t |-> "object", n |-> 0, s |-> "", props |-> p]

ObjAB == Obj(<< <<"a", Num(1)>>, <<"b", Num(2)>> >>)
ObjBA == Obj(<< <<"b", Num(2)>>, <<"a", Num(1)>> >>)
ObjA == Obj(<< <<"a", Num(1)>> >>)

\* Argument lists the wrappers are called with.
SmallArgs == { <<>>, <<Num(1)>>, <<Num(2)>> }
TwoArgs == { <<>>, <<Num(1)>> }
DelayArgs == { <<>>, <<Num(1), Num(2)>> }
MemoArgs ==
    { <<>>, <<Num(1)>>, <<Num(2)>>, <<Str("1")>>, <<Num(1), Num(2)>>,
      <<Num(1), Undefined>>, <<Undefined>>, <<Null>>, <<NaNV>>, <<FnV>>,
      <<ObjAB>>, <<ObjBA>>, <<ObjA>> }
\* Receivers a once-wrapper is called on: a plain call (strict mode gives
\* undefined) or a method call on an object.
Receivers == { Undefined, ObjA }

(***************************************************************************)
(* Structural (deep) equality of values: objects are equal when they have  *)
(* the same keys with deeply equal values, whatever the insertion order.   *)
(***************************************************************************)
Keys(v) == { v.props[i][1] : i \in 1..Len(v.props) }
Get(v, k) ==
    IF k \in Keys(v)
    THEN v.props[CHOOSE i \in 1..Len(v.props) : v.props[i][1] = k][2]
    ELSE Undefined

RECURSIVE DeepEq(_, _)
DeepEq(a, b) ==
    IF a.t = "object" /\ b.t = "object"
    THEN /\ Keys(a) = Keys(b)
         /\ \A k \in Keys(a) : DeepEq(Get(a, k), Get(b, k))
    ELSE a = b

ArgsDeepEq(A, B) ==
    /\ Len(A) = Len(B)
    /\ \A i \in 1..Len(A) : DeepEq(A[i], B[i])

(***************************************************************************)
(* JSON.stringify, as a sequence of tokens of the produced text.           *)
(* undefined and functions have no JSON text: a property holding one is    *)
(* left out of its object.  NaN is written null.                           *)
(***************************************************************************)
NoJSON(v) == v.t \in {"undefined", "function"}

RECURSIVE SerializeJSONProperty(_), SerializeJSONObject(_, _)
SerializeJSONProperty(v) ==
    CASE v.t = "null" -> <<"null">>
      [] v.t = "NaN" -> <<"null">>
      [] v.t = "number" -> <<ToString(v.n)>>
      [] v.t = "string" -> <<"\"", v.s, "\"">>
      [] v.t = "object" ->
            <<"{">> \o SerializeJSONObject(
                          SelectSeq(v.props, LAMBDA p : ~NoJSON(p[2])), 1)
                    \o <<"}">>
      [] OTHER -> <<>>

SerializeJSONObject(ps, i) ==
    IF i > Len(ps) THEN <<>>
    ELSE (IF i > 1 THEN <<",">> ELSE <<>>)
         \o <<"\"", ps[i][1], "\"", ":">>
         \o SerializeJSONProperty(ps[i][2])
         \o SerializeJSONObject(ps, i + 1)

\* The arguments object of a call: an object with properties "0", "1", ...
Arguments(args) ==
    Obj([i \in 1..Len(args) |-> <<ToString(i - 1), args[i]>>])

JSONStringify(v) == SerializeJSONProperty(v)

(***************************************************************************)
(* Arrays are sequences of values; index i of the code is position i + 1.  *)
(***************************************************************************)
ArraysOver(V) == UNION { [1..n -> V] : n \in 0..MaxLen }

Index(array, i) ==
    IF i >= 0 /\ i < Len(array) THEN array[i + 1] ELSE Undefined

\* Array.prototype.slice(start, end): a negative argument counts from the
\* end of the array, and both are clamped to the array.
Clamp(len, rel) ==
    IF rel < 0 THEN (IF len + rel > 0 THEN len + rel ELSE 0)
    ELSE (IF rel < len THEN rel ELSE len)

Slice(array, start, end) ==
    SubSeq(array, Clamp(Len(array), start) + 1, Clamp(Len(array), end))

\* JSON.stringify of an array: an element without JSON text is written null.
RECURSIVE SerializeJSONArray(_, _)
SerializeJSONArray(array, i) ==
    IF i > Len(array) THEN <<>>
    ELSE (IF i > 1 THEN <<",">> ELSE <<>>)
         \o (IF NoJSON(array[i]) THEN <<"null">>
             ELSE SerializeJSONProperty(array[i]))
         \o SerializeJSONArray(array, i + 1)

JSONStringifyArray(array) ==
    <<"[">> \o SerializeJSONArray(array, 1) \o <<"]">>

(***************************************************************************)
(* State.                                                                  *)
(***************************************************************************)
VARIABLES
    alreadyCalled,  \* once: the wrapper's flag, per wrapper
    onceResult,     \* once: the wrapper's cached result, per wrapper
    memoResult,     \* memoize: the wrapper's result object (key -> value)
    mustWait,       \* throttle: the wrapper's cooldown flag, per wrapper
    throttleWait,   \* throttle: the wait the wrapper was created with
    timers,         \* callbacks scheduled with setTimeout and not yet run
    fnLog,          \* the invocations of the wrapped function so far
    callLog,        \* the calls made to the library so far, with returns
    firstArray, firstN, firstResult, firstPc,
    shArray, shCopy, shI, shDepth, shPc,
    sbCollection, sbIterator, sbResult, sbPc

decoVars == <<alreadyCalled, onceResult, memoResult, mustWait, throttleWait,
              timers, fnLog, callLog>>
firstVars == <<firstArray, firstN, firstResult, firstPc>>
shuffleVars == <<shArray, shCopy, shI, shDepth, shPc>>
sortByVars == <<sbCollection, sbIterator, sbResult, sbPc>>
vars == <<decoVars, firstVars, shuffleVars, sortByVars>>

(***************************************************************************)
(* The wrapped function.  It may be impure: an invocation returns either a *)
(* value no earlier invocation returned, or undefined.                     *)
(***************************************************************************)
FnReturns == { Num(Len(fnLog) + 1), Undefined }

Invocation(kind, w, this, args, ret, id, age) ==
    [kind |-> kind, w |-> w, this |-> this, args |-> args, ret |-> ret,
     id |-> id, age |-> age]

Call(kind, w, this, args, ret, invoked, cooldown, wait) ==
    [kind |-> kind, w |-> w, this |-> this, args |-> args, ret |-> ret,
     invoked |-> invoked, cooldown |-> cooldown, wait |-> wait,
     id |-> Len(callLog) + 1]

\* setTimeout(callback, wait): the callback is pending until the timer
\* facility runs it; age counts the time since it was scheduled.
Timer(kind, w, wait, args) ==
    [id |-> Len(callLog) + 1, kind |-> kind, w |-> w, remaining |-> wait,
     age |-> 0, args |-> args]

\* The cooldown-exit callbacks of throttle wrapper w that are pending.
PendingExits(w) == { t \in timers : t.kind = "cooldownExit" /\ t.w = w }
InCooldown(w) == PendingExits(w) # {}

(***************************************************************************)
(* _.once                                                                  *)
(***************************************************************************)
\* once with the flag never set.
OnceCallFlagNotSet(w, this, args) ==
    /\ IF ~alreadyCalled[w]
       THEN \E ret \in FnReturns :
              /\ fnLog' = Append(fnLog,
                            Invocation("once", w, this, args, ret, 0, 0))
              /\ onceResult' = [onceResult EXCEPT ![w] = ret]
              /\ callLog' = Append(callLog,
                     Call("once", w, this, args, ret, TRUE, FALSE, 0))
              /\ UNCHANGED alreadyCalled
       ELSE /\ callLog' = Append(callLog,
                     Call("once", w, this, args, onceResult[w], FALSE,
                          FALSE, 0))
            /\ UNCHANGED <<fnLog, onceResult, alreadyCalled>>
    /\ UNCHANGED <<memoResult, mustWait, throttleWait, timers>>

\* once with the flag and the result shared by all wrappers.
OnceCallSharedState(w, this, args) ==
    /\ IF ~alreadyCalled[w]
       THEN \E ret \in FnReturns :
              /\ fnLog' = Append(fnLog,
                            Invocation("once", w, this, args, ret, 0, 0))
              /\ onceResult' = [v \in Wrappers |-> ret]
              /\ alreadyCalled' = [v \in Wrappers |-> TRUE]
              /\ callLog' = Append(callLog,
                     Call("once", w, this, args, ret, TRUE, FALSE, 0))
       ELSE /\ callLog' = Append(callLog,
                     Call("once", w, this, args, onceResult[w], FALSE,
                          FALSE, 0))
            /\ UNCHANGED <<fnLog, onceResult, alreadyCalled>>
    /\ UNCHANGED <<memoResult, mustWait, throttleWait, timers>>

OnceCall(w, this, args) ==
    /\ IF ~alreadyCalled[w]
       THEN \E ret \in FnReturns :
              /\ fnLog' = Append(fnLog,
                            Invocation("once", w, this, args, ret, 0, 0))
              /\ onceResult' = [onceResult EXCEPT ![w] = ret]
              /\ alreadyCalled' = [alreadyCalled EXCEPT ![w] = TRUE]
              /\ callLog' = Append(callLog,
                     Call("once", w, this, args, ret, TRUE, FALSE, 0))
       ELSE /\ callLog' = Append(callLog,
                     Call("once", w, this, args, onceResult[w], FALSE,
                          FALSE, 0))
            /\ UNCHANGED <<fnLog, onceResult, alreadyCalled>>
    /\ UNCHANGED <<memoResult, mustWait, throttleWait, timers>>

(***************************************************************************)
(* _.memoize: result is an object used as a map from key to cached value.  *)
(***************************************************************************)
HasOwnProperty(o, key) == \E e \in o : e.key = key
Lookup(o, key) == (CHOOSE e \in o : e.key = key).val
MemoKey(args) == JSONStringify(Arguments(args))

MemoizeCall(w, args) ==
    LET key == MemoKey(args) IN
    /\ IF ~HasOwnProperty(memoResult[w], key)
       THEN \E ret \in FnReturns :
              /\ fnLog' = Append(fnLog,
                            Invocation("memoize", w, Null, args, ret, 0, 0))
              /\ memoResult' = [memoResult EXCEPT
                     ![w] = @ \cup { [key |-> key, val |-> ret] }]
              /\ callLog' = Append(callLog,
                     Call("memoize", w, Undefined, args, ret, TRUE, FALSE, 0))
       ELSE /\ callLog' = Append(callLog,
                     Call("memoize", w, Undefined, args,
                          Lookup(memoResult[w], key), FALSE, FALSE, 0))
            /\ UNCHANGED <<fnLog, memoResult>>
    /\ UNCHANGED <<alreadyCalled, onceResult, mustWait, throttleWait, timers>>

(***************************************************************************)
(* _.throttle: result is a local of each call of the wrapper, so a call    *)
(* that does not invoke func returns the initial value of that local.      *)
(***************************************************************************)
\* throttle that never enters cooldown.
ThrottleCallNoCooldown(w, args) ==
    /\ IF ~mustWait[w]
       THEN \E ret \in FnReturns :
              /\ fnLog' = Append(fnLog,
                            Invocation("throttle", w, Null, args, ret, 0, 0))
              /\ timers' = timers \cup
                     { Timer("cooldownExit", w, throttleWait[w], <<>>) }
              /\ callLog' = Append(callLog,
                     Call("throttle", w, Undefined, args, ret, TRUE,
                          InCooldown(w), throttleWait[w]))
              /\ UNCHANGED mustWait
       ELSE /\ callLog' = Append(callLog,
                     Call("throttle", w, Undefined, args, Undefined, FALSE,
                          InCooldown(w), throttleWait[w]))
            /\ UNCHANGED <<fnLog, mustWait, timers>>
    /\ UNCHANGED <<alreadyCalled, onceResult, memoResult, throttleWait>>

\* throttle that schedules a cooldown-exit on every call, dropped or not.
ThrottleCallAlwaysSchedules(w, args) ==
    /\ IF ~mustWait[w]
       THEN \E ret \in FnReturns :
              /\ fnLog' = Append(fnLog,
                            Invocation("throttle", w, Null, args, ret, 0, 0))
              /\ mustWait' = [mustWait EXCEPT ![w] = TRUE]
              /\ callLog' = Append(callLog,
                     Call("throttle", w, Undefined, args, ret, TRUE,
                          InCooldown(w), throttleWait[w]))
       ELSE /\ callLog' = Append(callLog,
                     Call("throttle", w, Undefined, args, Undefined, FALSE,
                          InCooldown(w), throttleWait[w]))
            /\ UNCHANGED <<fnLog, mustWait>>
    /\ timers' = timers \cup
           { Timer("cooldownExit", w, throttleWait[w], <<>>) }
    /\ UNCHANGED <<alreadyCalled, onceResult, memoResult, throttleWait>>

ThrottleCall(w, args) ==
    /\ IF ~mustWait[w]
       THEN \E ret \in FnReturns :
              /\ fnLog' = Append(fnLog,
                            Invocation("throttle", w, Null, args, ret, 0, 0))
              /\ mustWait' = [mustWait EXCEPT ![w] = TRUE]
              /\ timers' = timers \cup
                     { Timer("cooldownExit", w, throttleWait[w], <<>>) }
              /\ callLog' = Append(callLog,
                     Call("throttle", w, Undefined, args, ret, TRUE,
                          InCooldown(w), throttleWait[w]))
       ELSE /\ callLog' = Append(callLog,
                     Call("throttle", w, Undefined, args, Undefined, FALSE,
                          InCooldown(w), throttleWait[w]))
            /\ UNCHANGED <<fnLog, mustWait, timers>>
    /\ UNCHANGED <<alreadyCalled, onceResult, memoResult, throttleWait>>

\* The callback throttle schedules: function() {mustWait = false;}
CooldownExit(t) ==
    /\ t.kind = "cooldownExit"
    /\ t.remaining = 0
    /\ mustWait' = [mustWait EXCEPT ![t.w] = FALSE]
    /\ timers' = timers \ {t}
    /\ UNCHANGED <<alreadyCalled, onceResult, memoResult, throttleWait,
                   fnLog, callLog>>

(***************************************************************************)
(* _.delay                                                                 *)
(***************************************************************************)
\* delay that passes wait on to func as its first argument.
DelayCallSliceFromOne(wait, args) ==
    LET arguments == <<FnV, Num(wait)>> \o args IN
    /\ timers' = timers \cup
           { Timer("delay", "none", wait,
                   Slice(arguments, 1, Len(arguments))) }
    /\ callLog' = Append(callLog,
           Call("delay", "none", Undefined, args, Undefined, FALSE, FALSE,
                wait))
    /\ UNCHANGED <<alreadyCalled, onceResult, memoResult, mustWait,
                   throttleWait, fnLog>>

\* delay(func, wait, ...args): args is [].slice.apply(arguments, [2]).
DelayCall(wait, args) ==
    LET arguments == <<FnV, Num(wait)>> \o args IN
    /\ timers' = timers \cup
           { Timer("delay", "none", wait,
                   Slice(arguments, 2, Len(arguments))) }
    /\ callLog' = Append(callLog,
           Call("delay", "none", Undefined, args, Undefined, FALSE, FALSE,
                wait))
    /\ UNCHANGED <<alreadyCalled, onceResult, memoResult, mustWait,
                   throttleWait, fnLog>>

\* The callback delay schedules: function() {func.apply(null,args);}
DelayedInvoke(t) ==
    /\ t.kind = "delay"
    /\ t.remaining = 0
    /\ \E ret \in FnReturns :
         fnLog' = Append(fnLog,
                    Invocation("delay", "none", Null, t.args, ret, t.id,
                               t.age))
    /\ timers' = timers \ {t}
    /\ UNCHANGED <<alreadyCalled, onceResult, memoResult, mustWait,
                   throttleWait, callLog>>

(***************************************************************************)
(* The timer facility: one unit of time passes for every pending timer.    *)
(* A timer may run any time after its wait has elapsed.                    *)
(***************************************************************************)
Elapse(t) ==
    [t EXCEPT !.remaining = IF @ > 0 THEN @ - 1 ELSE 0,
              !.age = IF @ < MaxWait THEN @ + 1 ELSE @]

Tick ==
    /\ timers' = { Elapse(t) : t \in timers }
    /\ timers' # timers
    /\ UNCHANGED <<alreadyCalled, onceResult, memoResult, mustWait,
                   throttleWait, fnLog, callLog>>

(***************************************************************************)
(* Initial states and specifications of the decorators.                    *)
(***************************************************************************)
IdleFirst ==
    /\ firstArray = <<>>
    /\ firstN = Undefined
    /\ firstResult = [isArray |-> FALSE, elems |-> <<>>, val |-> Undefined]
    /\ firstPc = "idle"

IdleShuffle ==
    /\ shArray = <<>>
    /\ shCopy = <<>>
    /\ shI = 0
    /\ shDepth = 0
    /\ shPc = "idle"

IdleSortBy ==
    /\ sbCollection = <<>>
    /\ sbIterator = "a"
    /\ sbResult = <<>>
    /\ sbPc = "idle"

InitDeco ==
    /\ alreadyCalled = [w \in Wrappers |-> FALSE]
    /\ onceResult = [w \in Wrappers |-> Undefined]
    /\ memoResult = [w \in Wrappers |-> {}]
    /\ mustWait = [w \in Wrappers |-> FALSE]
    /\ timers = {}
    /\ fnLog = <<>>
    /\ callLog = <<>>

\* The wrappers as created: throttle(func, wait) with any wait.
Init ==
    /\ InitDeco
    /\ throttleWait \in [Wrappers -> Waits]
    /\ IdleFirst /\ IdleShuffle /\ IdleSortBy

\* The same, for the operations that use no throttle wrapper.
InitNoThrottle ==
    /\ InitDeco
    /\ throttleWait = [w \in Wrappers |-> 0]
    /\ IdleFirst /\ IdleShuffle /\ IdleSortBy

pureVars == <<firstVars, shuffleVars, sortByVars>>

OnceNext(R, A) ==
    /\ \E w \in Wrappers, this \in R, args \in A : OnceCall(w, this, args)
    /\ UNCHANGED pureVars

MemoizeNext(A) ==
    /\ \E w \in Wrappers, args \in A : MemoizeCall(w, args)
    /\ UNCHANGED pureVars

ThrottleNext(A) ==
    /\ \E w \in Wrappers, args \in A : ThrottleCall(w, args)
    /\ UNCHANGED pureVars

CooldownExitNext ==
    /\ \E t \in timers : CooldownExit(t)
    /\ UNCHANGED pureVars

DelayNext ==
    /\ \E wait \in Waits, args \in DelayArgs : DelayCall(wait, args)
    /\ UNCHANGED pureVars

DelayedInvokeNext ==
    /\ \E t \in timers : DelayedInvoke(t)
    /\ UNCHANGED pureVars

TickNext == Tick /\ UNCHANGED pureVars

NextOnce == Len(callLog) < MaxCalls /\ OnceNext(Receivers, SmallArgs)
SpecOnce == InitNoThrottle /\ [][NextOnce]_vars

NextMemoize == Len(callLog) < MaxMemoCalls /\ MemoizeNext(MemoArgs)
SpecMemoize == InitNoThrottle /\ [][NextMemoize]_vars

NextThrottle ==
    \/ Len(callLog) < MaxCalls /\ ThrottleNext(TwoArgs)
    \/ CooldownExitNext
    \/ TickNext
SpecThrottle == Init /\ [][NextThrottle]_vars

NextDelay ==
    \/ Len(callLog) < MaxDelayCalls /\ DelayNext
    \/ DelayedInvokeNext
    \/ TickNext
SpecDelay == InitNoThrottle /\ [][NextDelay]_vars
SpecDelayFair ==
    SpecDelay /\ WF_vars(TickNext) /\ WF_vars(DelayedInvokeNext)

\* Two wrappers of each kind, all made from the same function, called in
\* any interleaving.
NextWrappers ==
    \/ Len(callLog) < MaxMixedCalls /\ OnceNext({Undefined}, TwoArgs)
    \/ Len(callLog) < MaxMixedCalls /\ MemoizeNext(TwoArgs)
    \/ Len(callLog) < MaxMixedCalls /\ ThrottleNext(TwoArgs)
    \/ CooldownExitNext
    \/ TickNext
SpecWrappers == Init /\ [][NextWrappers]_vars

\* Throttle wrappers alone, with a timer facility that lets time pass and
\* runs every scheduled callback of every wrapper once it is due.
CooldownExitOf(w) ==
    /\ \E t \in PendingExits(w) : CooldownExit(t)
    /\ UNCHANGED pureVars

NextCooldown ==
    \/ Len(callLog) < MaxCalls /\ ThrottleNext({ <<>> })
    \/ \E w \in Wrappers : CooldownExitOf(w)
    \/ TickNext
SpecCooldownFair ==
    /\ Init /\ [][NextCooldown]_vars
    /\ WF_vars(TickNext)
    /\ \A w \in Wrappers : WF_vars(CooldownExitOf(w))

(***************************************************************************)
(* _.first                                                                 *)
(***************************************************************************)
First(array, n) ==
    IF n = Undefined
    THEN [isArray |-> FALSE, elems |-> <<>>, val |-> Index(array, 0)]
    ELSE [isArray |-> TRUE, elems |-> Slice(array, 0, n.n), val |-> Undefined]

FirstCall ==
    /\ firstPc = "ready"
    /\ firstResult' = First(firstArray, firstN)
    /\ firstPc' = "done"
    /\ UNCHANGED <<firstArray, firstN>>
    /\ UNCHANGED <<decoVars, shuffleVars, sortByVars>>

FirstValues == { Num(1), Num(2) }
FirstNs == { Undefined } \cup { Num(k) : k \in -(MaxLen + 1)..(MaxLen + 1) }

InitFirst ==
    /\ InitDeco
    /\ throttleWait = [w \in Wrappers |-> 0]
    /\ IdleShuffle /\ IdleSortBy
    /\ firstArray \in ArraysOver(FirstValues)
    /\ firstN \in FirstNs
    /\ firstResult = [isArray |-> FALSE, elems |-> <<>>, val |-> Undefined]
    /\ firstPc = "ready"

SpecFirst == InitFirst /\ [][FirstCall]_vars

(***************************************************************************)
(* _.shuffle.  The recursive call is made on the same array, and its       *)
(* result is returned unchanged by every caller, so a call in progress is  *)
(* the innermost frame plus the depth of the stack.  The stack is finite:  *)
(* a call beyond its limit throws a RangeError.                            *)
(***************************************************************************)
Swap(copy, i, rand) ==
    [copy EXCEPT ![i + 1] = copy[rand + 1], ![rand + 1] = copy[i + 1]]

ShuffleEnter ==
    /\ shPc = "call"
    /\ shCopy' = Slice(shArray, 0, Len(shArray))
    /\ shI' = 0
    /\ shPc' = "loop"
    /\ UNCHANGED <<shArray, shDepth>>
    /\ UNCHANGED <<decoVars, firstVars, sortByVars>>

\* One iteration of the for loop; rand is Math.floor(Math.random() * len).
ShuffleStep(rand) ==
    /\ shPc = "loop"
    /\ shI < Len(shArray)
    /\ shCopy' = Swap(shCopy, shI, rand)
    /\ shI' = shI + 1
    /\ UNCHANGED <<shArray, shDepth, shPc>>
    /\ UNCHANGED <<decoVars, firstVars, sortByVars>>

ShuffleSame == JSONStringifyArray(shArray) = JSONStringifyArray(shCopy)

ShuffleRecurse ==
    /\ shPc = "loop"
    /\ shI = Len(shArray)
    /\ ShuffleSame
    /\ shDepth < MaxStack
    /\ shDepth' = shDepth + 1
    /\ shPc' = "call"
    /\ UNCHANGED <<shArray, shCopy, shI>>
    /\ UNCHANGED <<decoVars, firstVars, sortByVars>>

ShuffleOverflow ==
    /\ shPc = "loop"
    /\ shI = Len(shArray)
    /\ ShuffleSame
    /\ shDepth = MaxStack
    /\ shPc' = "threw"
    /\ UNCHANGED <<shArray, shCopy, shI, shDepth>>
    /\ UNCHANGED <<decoVars, firstVars, sortByVars>>

ShuffleReturn ==
    /\ shPc = "loop"
    /\ shI = Len(shArray)
    /\ ~ShuffleSame
    /\ shPc' = "returned"
    /\ UNCHANGED <<shArray, shCopy, shI, shDepth>>
    /\ UNCHANGED <<decoVars, firstVars, sortByVars>>

ShuffleValues == { Num(1), Num(2), Null, NaNV }

InitShuffle ==
    /\ InitDeco
    /\ throttleWait = [w \in Wrappers |-> 0]
    /\ IdleFirst /\ IdleSortBy
    /\ shArray \in ArraysOver(ShuffleValues)
    /\ shCopy = <<>>
    /\ shI = 0
    /\ shDepth = 0
    /\ shPc = "call"

NextShuffle ==
    \/ ShuffleEnter
    \/ \E rand \in 0..(Len(shArray) - 1) : ShuffleStep(rand)
    \/ ShuffleRecurse
    \/ ShuffleOverflow
    \/ ShuffleReturn

SpecShuffle == InitShuffle /\ [][NextShuffle]_vars

(***************************************************************************)
(* _.sortBy.  An iterator is a property name or a function of (value,      *)
(* index).  Array.prototype.sort may return any order that agrees with the *)
(* comparison function (it need not be stable).                            *)
(***************************************************************************)
PropertyA == [isStr |-> TRUE, name |-> "a"]
FnIndexDescending == [isStr |-> FALSE, name |-> "indexDescending"]
FnConstant == [isStr |-> FALSE, name |-> "constant"]
Iterators == { PropertyA, FnIndexDescending, FnConstant }

\* isStr ? val[iterator] : iterator(val, index)
Criterion(iterator, val, index) ==
    IF iterator.isStr THEN Get(val, iterator.name)
    ELSE IF iterator.name = "indexDescending" THEN Num(0 - index)
    ELSE Num(0)

Gt(a, b) == a.t = "number" /\ b.t = "number" /\ a.n > b.n
Lt(a, b) == a.t = "number" /\ b.t = "number" /\ a.n < b.n

\* The comparison function with the tie-break on the index left out.
SortByCompareNoTieBreak(iterator, l, r) ==
    LET a == Criterion(iterator, l.val, l.index)
        b == Criterion(iterator, r.val, r.index)
    IN  IF a # b /\ (Gt(a, b) \/ a = Undefined) THEN 1
        ELSE IF a # b /\ (Lt(a, b) \/ b = Undefined) THEN -1
        ELSE 0

SortByCompare(iterator, l, r) ==
    LET a == Criterion(iterator, l.val, l.index)
        b == Criterion(iterator, r.val, r.index)
    IN  IF a # b /\ (Gt(a, b) \/ a = Undefined) THEN 1
        ELSE IF a # b /\ (Lt(a, b) \/ b = Undefined) THEN -1
        ELSE l.index - r.index

Bijections(n) ==
    { p \in [1..n -> 1..n] : \A i, j \in 1..n : p[i] = p[j] => i = j }

\* The arrays array.sort(compare) may produce.
ArraySort(array, iterator) ==
    { [i \in 1..Len(array) |-> array[p[i]]] : p \in
        { q \in Bijections(Len(array)) :
            \A i, j \in 1..Len(array) :
                i < j => SortByCompare(iterator, array[q[i]], array[q[j]]) <= 0 } }

Decorate(collection) ==
    [j \in 1..Len(collection) |-> [val |-> collection[j], index |-> j - 1]]

Pluck(array, key) == [j \in 1..Len(array) |-> array[j][key]]

SortByCall ==
    /\ sbPc = "ready"
    /\ \E sorted \in ArraySort(Decorate(sbCollection), sbIterator) :
          sbResult' = Pluck(sorted, "val")
    /\ sbPc' = "done"
    /\ UNCHANGED <<sbCollection, sbIterator>>
    /\ UNCHANGED <<decoVars, firstVars, shuffleVars>>

\* The element at index i whose property a holds v; undefined: no property.
Element(v, i) ==
    IF v = Undefined THEN Obj(<< <<"i", Num(i)>> >>)
    ELSE Obj(<< <<"a", v>>, <<"i", Num(i)>> >>)

CriterionValues == { Num(1), Num(2), Undefined }

InitSortBy ==
    /\ InitDeco
    /\ throttleWait = [w \in Wrappers |-> 0]
    /\ IdleFirst /\ IdleShuffle
    /\ \E as \in ArraysOver(CriterionValues) :
          sbCollection = [j \in 1..Len(as) |-> Element(as[j], j - 1)]
    /\ sbIterator \in Iterators
    /\ sbResult = <<>>
    /\ sbPc = "ready"

SpecSortBy == InitSortBy /\ [][SortByCall]_vars


(***************************************************************************)
(* Properties of the decorators.                                           *)
(***************************************************************************)
CallsOf(kind, w) ==
    { j \in 1..Len(callLog) : callLog[j].kind = kind /\ callLog[j].w = w }
InvocationsOf(kind, w) ==
    { k \in 1..Len(fnLog) : fnLog[k].kind = kind /\ fnLog[k].w = w }
Max(S) == CHOOSE x \in S : \A y \in S : y <= x
Min(S) == CHOOSE x \in S : \A y \in S : x <= y

\* A call was made in this step; LastCall is that call.
CallMade == Len(callLog') = Len(callLog) + 1
LastCall == callLog'[Len(callLog')]

\* C1: every call to a throttle wrapper that arrives while the wrapper is
\* in cooldown returns the value returned by the wrapper's most recent
\* invocation of fn.
C1_DroppedCallReturnsCaptured ==
    \A w \in Wrappers : \A j \in CallsOf("throttle", w) :
        callLog[j].cooldown =>
            LET earlier == { i \in CallsOf("throttle", w) :
                               i < j /\ callLog[i].invoked }
            IN  /\ earlier # {}
                /\ callLog[j].ret = callLog[Max(earlier)].ret

\* C2: a call to a throttle wrapper invokes fn, once, with the call's
\* arguments, if and only if no cooldown-exit callback scheduled by an
\* earlier invoking call of that wrapper is still pending; a step that is
\* not a call (a timer firing, time passing) never invokes fn.
C2_InvokesIffNotInCooldown ==
    [][ /\ \A w \in Wrappers :
             (CallMade /\ LastCall.kind = "throttle" /\ LastCall.w = w) =>
                IF \E i \in CallsOf("throttle", w) :
                       /\ callLog[i].invoked
                       /\ \E t \in PendingExits(w) : t.id = i
                THEN fnLog' = fnLog /\ ~LastCall.invoked
                ELSE /\ Len(fnLog') = Len(fnLog) + 1
                     /\ SubSeq(fnLog', 1, Len(fnLog)) = fnLog
                     /\ fnLog'[Len(fnLog')].args = LastCall.args
                     /\ fnLog'[Len(fnLog')].this = Null
                     /\ fnLog'[Len(fnLog')].w = w
                     /\ LastCall.invoked
                     /\ \E t \in timers' \ timers :
                            t.id = LastCall.id /\ t.w = w
        /\ ~CallMade => fnLog' = fnLog
      ]_vars

C2_Witness ==
    \E w \in Wrappers : \E i, j, k \in CallsOf("throttle", w) :
        /\ i < j /\ j < k
        /\ callLog[i].invoked
        /\ callLog[j].cooldown /\ ~callLog[j].invoked
        /\ callLog[k].invoked
        /\ ~mustWait[w]

\* C3: over any sequence of calls to a once wrapper, fn is invoked exactly
\* once, on the first call, with that call's receiver and arguments, and
\* every call returns the value that invocation returned.
C3_OnceInvokesOnce ==
    \A w \in Wrappers :
        LET calls == CallsOf("once", w)
            invs == InvocationsOf("once", w)
        IN  calls # {} =>
              /\ Cardinality(invs) = 1
              /\ callLog[Min(calls)].invoked
              /\ \A k \in invs :
                    /\ fnLog[k].this = callLog[Min(calls)].this
                    /\ fnLog[k].args = callLog[Min(calls)].args
                    /\ \A j \in calls : callLog[j].ret = fnLog[k].ret

C3_Witness ==
    \E w \in Wrappers :
        /\ Cardinality(CallsOf("once", w)) = 3
        /\ \A i, j \in CallsOf("once", w) :
              i # j => callLog[i].args # callLog[j].args
        /\ \E i, j \in CallsOf("once", w) : callLog[i].this # callLog[j].this

\* C4: of the calls to a memoize wrapper whose argument lists are
\* structurally equal, only the first invokes fn and all return what that
\* invocation returned.
C4_EqualArgsInvokeOnce ==
    \A w \in Wrappers : \A i, j \in CallsOf("memoize", w) :
        (i < j /\ ArgsDeepEq(callLog[i].args, callLog[j].args)) =>
            /\ ~callLog[j].invoked
            /\ callLog[j].ret = callLog[i].ret

\* C5: a call to a memoize wrapper with an argument list that is not
\* structurally equal to the argument list of any earlier call of that
\* wrapper invokes fn (it never gets the result cached for another list).
C5_DistinctArgsInvokeAgain ==
    \A w \in Wrappers : \A j \in CallsOf("memoize", w) :
        (\A i \in CallsOf("memoize", w) :
            i < j => ~ArgsDeepEq(callLog[i].args, callLog[j].args))
        => callLog[j].invoked

\* C6: a call of delay returns without invoking fn; afterwards fn is
\* invoked exactly once for that call, not before wait time units have
\* elapsed, with the call's arguments in order and no receiver; every
\* outstanding call gets its own invocation.
DelayInvocations(j) ==
    { k \in 1..Len(fnLog) : fnLog[k].kind = "delay" /\ fnLog[k].id = j }
DelayPending(j) == { t \in timers : t.kind = "delay" /\ t.id = j }

C6_Safety ==
    \A j \in CallsOf("delay", "none") :
        /\ Cardinality(DelayInvocations(j)) + Cardinality(DelayPending(j)) = 1
        /\ \A k \in DelayInvocations(j) :
              /\ fnLog[k].args = callLog[j].args
              /\ fnLog[k].this = Null
              /\ fnLog[k].age >= callLog[j].wait

C6_DelayInvokesOnceLater ==
    /\ []C6_Safety
    /\ [][CallMade => fnLog' = fnLog]_vars
    /\ \A j \in 1..MaxDelayCalls :
          (Len(callLog) >= j) ~> (DelayInvocations(j) # {})

C6_Witness ==
    /\ Len(callLog) = 2
    /\ callLog[1].wait > callLog[2].wait
    /\ callLog[1].args # callLog[2].args
    /\ callLog[1].args # <<>>
    /\ DelayInvocations(1) # {} /\ DelayInvocations(2) # {}
    /\ Min(DelayInvocations(2)) < Min(DelayInvocations(1))

\* C7: a call to, or a timer firing of, one wrapper never changes the flag,
\* cached result, cache entries or cooldown state of another wrapper.
Acts(kind, w) ==
    \/ CallMade /\ LastCall.kind = kind /\ LastCall.w = w
    \/ /\ kind = "throttle"
       /\ \E t \in PendingExits(w) : t.remaining = 0 /\ timers' = timers \ {t}

ExitIds(w) == { t.id : t \in PendingExits(w) }

C7_WrappersIndependent ==
    [][ \A w \in Wrappers :
          /\ ~Acts("once", w) =>
                /\ alreadyCalled'[w] = alreadyCalled[w]
                /\ onceResult'[w] = onceResult[w]
          /\ ~Acts("memoize", w) => memoResult'[w] = memoResult[w]
          /\ ~Acts("throttle", w) =>
                /\ mustWait'[w] = mustWait[w]
                /\ ExitIds(w)' = ExitIds(w)
      ]_vars

C7_Witness ==
    /\ Len(callLog) = 2
    /\ callLog[1].kind = callLog[2].kind
    /\ callLog[1].w # callLog[2].w
    /\ callLog[1].args = callLog[2].args
    /\ callLog[1].invoked /\ callLog[2].invoked
    /\ callLog[1].ret # callLog[2].ret

(***************************************************************************)
(* Properties of first, shuffle and sortBy.                                *)
(***************************************************************************)
NatMin(a, b) == IF a < b THEN a ELSE b
NatMax(a, b) == IF a > b THEN a ELSE b

\* C8: first(array, n) is the array of the first min(max(n, 0), length)
\* elements in order, so every n <= 0 gives the empty array; with n
\* omitted it is the first element, or undefined for an empty array.
C8_FirstTakesPrefix ==
    firstPc = "done" =>
        IF firstN = Undefined
        THEN /\ ~firstResult.isArray
             /\ firstResult.val =
                  (IF firstArray = <<>> THEN Undefined ELSE firstArray[1])
        ELSE /\ firstResult.isArray
             /\ firstResult.elems =
                  SubSeq(firstArray, 1,
                         NatMin(NatMax(firstN.n, 0), Len(firstArray)))

\* C9: shuffle returns a permutation of its input that differs from the
\* input, and when the input has at most one distinguishable ordering
\* (empty, one element, all elements equal) it still returns.
IsPermutationOf(a, b) ==
    /\ Len(a) = Len(b)
    /\ \E p \in Bijections(Len(a)) : \A i \in 1..Len(a) : a[i] = b[p[i]]

OneOrdering(array) == \A i, j \in 1..Len(array) : array[i] = array[j]

C9_ShuffleReturns ==
    /\ shPc = "returned" =>
          /\ IsPermutationOf(shCopy, shArray)
          /\ shCopy # shArray
    /\ OneOrdering(shArray) => shPc # "threw"

\* C10: sortBy returns the values in ascending order of their criterion,
\* values with equal criteria in their original order and values whose
\* criterion is undefined last: the order by the pair (criterion with
\* undefined greatest, original index).
KeyBefore(iterator, collection, j, k) ==
    LET a == Criterion(iterator, collection[j], j - 1)
        b == Criterion(iterator, collection[k], k - 1)
    IN  \/ a # Undefined /\ b = Undefined
        \/ a # Undefined /\ b # Undefined /\ a.n < b.n
        \/ a = b /\ j < k

Rank(iterator, collection, j) ==
    Cardinality({ k \in 1..Len(collection) :
                    KeyBefore(iterator, collection, k, j) })

ReferenceSort(iterator, collection) ==
    [pos \in 1..Len(collection) |->
        collection[CHOOSE j \in 1..Len(collection) :
                      Rank(iterator, collection, j) = pos - 1]]

C10_SortByStable ==
    sbPc = "done" => sbResult = ReferenceSort(sbIterator, sbCollection)

C10_Witness ==
    /\ sbPc = "done"
    /\ sbIterator = PropertyA
    /\ Len(sbCollection) = 3
    /\ Get(sbCollection[1], "a") = Undefined
    /\ Get(sbCollection[2], "a") = Num(1)
    /\ Get(sbCollection[3], "a") = Num(1)
    /\ sbResult = <<sbCollection[2], sbCollection[3], sbCollection[1]>>

\* C11: a throttle wrapper's cooldown flag is set if and only if exactly
\* one cooldown-exit callback of that wrapper is pending, and never more
\* than one is pending; so when the timer facility runs every scheduled
\* callback, every cooldown ends, and a call made after it invokes fn again.
C11_FlagMatchesTimer ==
    \A w \in Wrappers :
        /\ Cardinality(PendingExits(w)) <= 1
        /\ mustWait[w] <=> Cardinality(PendingExits(w)) = 1

C11_CooldownFlagAndTimer ==
    /\ []C11_FlagMatchesTimer
    /\ \A w \in Wrappers : mustWait[w] ~> ~mustWait[w]
    /\ [][ \A w \in Wrappers :
             (CallMade /\ LastCall.kind = "throttle" /\ LastCall.w = w
                /\ ~mustWait[w])
             => LastCall.invoked /\ Len(fnLog') = Len(fnLog) + 1 ]_vars

C11_Witness ==
    \E w \in Wrappers :
        /\ mustWait[w]
        /\ Cardinality(PendingExits(w)) = 1
        /\ Cardinality({ i \in CallsOf("throttle", w) : callLog[i].invoked }) = 2
        /\ \E j \in CallsOf("throttle", w) : ~callLog[j].invoked

====
